---- MODULE Spec2Model ----
(***************************************************************************)
(* Far::PatchTables limit-surface evaluation (opensubdiv/far/patchTables.h) *)
(*                                                                         *)
(* A PatchTables store is built once and then only read.  One behaviour of *)
(* the model is one evaluation call on a constructed store: the entry      *)
(* points Interpolate and Limit, or one of the public static Interpolate*  *)
(* methods called directly with caller-chosen weights.                     *)
(*                                                                         *)
(* Arithmetic.  The code works on floats; the model works on exact         *)
(* rationals held as integers in fixed units:                              *)
(*   - a parametric coordinate s is the integer sN with s = sN / GridN;    *)
(*   - a Gregory split ratio r is the integer r * RatioScale;              *)
(*   - basis weights are the integer numerators over a common denominator. *)
(* Arrays are 0-based functions, as in the code.                           *)
(***************************************************************************)
EXTENDS Integers, Sequences, FiniteSets, TLC

\* ------------------------------------------------------------------ bounds

\* Parametric sample resolution: s, t range over 0/GridN .. GridN/GridN.
GridN == 2

\* Size of the source primvar buffer (vertex indices 0 .. NumVerts-1).
NumVerts == 16

\* Largest number of patch arrays in a store.
MaxArrays == 2

\* Patches in each patch array.
PatchesPerArray == 2

\* Worker threads evaluating the store concurrently.
NumWorkers == 2

\* ------------------------------------------------- PatchDescriptor::Type

\* The kinds the model stores, numbered as the enumeration orders them: the
\* uniform kinds below the bicubic ones, REGULAR .. CORNER contiguous.
QUADS == 3
TRIANGLES == 4
REGULAR == 6
SINGLE_CREASE == 7
BOUNDARY == 8
CORNER == 9
GREGORY == 10
GREGORY_BOUNDARY == 11
GREGORY_BASIS == 12

\* The kinds a stored array may have in the model.
PatchTypes == {QUADS, TRIANGLES} \cup (REGULAR .. GREGORY_BASIS)

\* PatchDescriptor::GetNumControlVertices
GetNumControlVerticesOf(type) ==
    CASE type = REGULAR          -> 16
      [] type = SINGLE_CREASE    -> 16
      [] type = BOUNDARY         -> 12
      [] type = CORNER           -> 9
      [] type = GREGORY_BASIS    -> 20
      [] type = TRIANGLES        -> 3
      [] OTHER                   -> 4

\* TensorBasis
BASIS_BEZIER == "BASIS_BEZIER"
BASIS_BSPLINE == "BASIS_BSPLINE"

\* ------------------------------------------------------------- variables

VARIABLES
    patchArrays,          \* _patchArrays: the descriptor type of each array
    endcapStencilTables,  \* _endcapStencilTables: sequence of stencils, <<>> = NULL
    src,                  \* source primvar buffer, vertex index -> primvar value
    dst,                  \* destination primvar: value and two derivatives [p, d1, d2]
    dstBefore,            \* what dst held when the call started
    log,                  \* the calls made on dst, in order
    pc,                   \* "idle", "done" (returned) or "aborted" (assert failed)
    call,                 \* the call made: function and arguments
    trace,                \* what the call computed on the way (basis, path, ...)
    workers,              \* concurrent evaluation: each worker thread's call and destination
    copy                  \* a copy-constructed store and the evaluation made on it

vars == <<patchArrays, endcapStencilTables, src, dst, dstBefore, log, pc, call, trace,
          workers, copy>>

\* ----------------------------------------------- primvar data (T and U)

\* A primvar value is a vector of Dim components (a position, a colour, ...).
Dim == NumVerts

Components == 1..Dim

ZeroValue == [c \in Components |-> 0]

\* The two operations a destination offers, as recorded in log.
ClearOp == [op |-> "Clear", v |-> -1, w |-> 0, w1 |-> 0, w2 |-> 0]

AddOp(v, w, w1, w2) == [op |-> "AddWithWeight", v |-> v, w |-> w, w1 |-> w1, w2 |-> w2]

ZeroDst == [p |-> ZeroValue, d1 |-> ZeroValue, d2 |-> ZeroValue]

\* dst.Clear()
Clear(d) == ZeroDst

\* dst.AddWithWeight(value, w, w1, w2)
AddWithWeight(d, value, w, w1, w2) ==
    [p  |-> [c \in Components |-> d.p[c] + value[c] * w],
     d1 |-> [c \in Components |-> d.d1[c] + value[c] * w1],
     d2 |-> [c \in Components |-> d.d2[c] + value[c] * w2]]

\* The destination after the calls ops, made in order on d, reading buffer buf.
RECURSIVE ApplyOps(_, _, _)
ApplyOps(ops, buf, d) ==
    IF ops = <<>> THEN d
    ELSE LET o == Head(ops)
         IN ApplyOps(Tail(ops), buf,
                     IF o.op = "Clear" THEN Clear(d)
                     ELSE AddWithWeight(d, buf[o.v], o.w, o.w1, o.w2))

\* ------------------------------------------------------- fixed-point units

\* 1.0f as a parametric coordinate.
One == GridN

RECURSIVE Gcd(_, _)
Gcd(a, b) == IF b = 0 THEN a ELSE Gcd(b, a % b)

RECURSIVE LcmUpTo(_)
LcmUpTo(n) == IF n <= 1 THEN 1 ELSE LET l == LcmUpTo(n - 1) IN (l * n) \div Gcd(l, n)

\* The unit of the split ratios: every quotient a/b of coordinates on the
\* grid (b in 1 .. 2*GridN) is a whole number of 1/RatioScale.
RatioScale == LcmUpTo(2 * GridN)

\* The marker of a float division by zero (inf or NaN): outside 0 .. RatioScale.
NotFinite == 0 - RatioScale

\* The float quotient n / d, in units of 1/RatioScale.
FDiv(n, d) == IF d = 0 THEN NotFinite ELSE (n * RatioScale) \div d

\* --------------------------------------------- static interpolation methods

\* A plausible slip: the sign of the last t-derivative weight is lost.
InterpolateBilinear_SignSlip(cvs, s, t) ==
    LET os  == One - s
        ot  == One - t
        Q   == <<os * ot, s * ot, s * t, os * t>>
        dQ1 == <<t - One, ot, t, t>>
        dQ2 == <<s - One, 0 - s, s, os>>
    IN [n \in 1..4 |-> AddOp(cvs[n - 1], Q[n], dQ1[n], dQ2[n])]

\* InterpolateBilinear: value weights in units of 1/GridN^2, derivative
\* weights in units of 1/GridN.
InterpolateBilinear(cvs, s, t) ==
    LET os  == One - s
        ot  == One - t
        Q   == <<os * ot, s * ot, s * t, os * t>>
        dQ1 == <<t - One, ot, t, 0 - t>>
        dQ2 == <<s - One, 0 - s, s, os>>
    IN [n \in 1..4 |-> AddOp(cvs[n - 1], Q[n], dQ1[n], dQ2[n])]

InterpolateRegularPatch(cvs, Q, Qd1, Qd2) ==
    [n \in 1..16 |-> AddOp(cvs[n - 1], Q[n - 1], Qd1[n - 1], Qd2[n - 1])]

\* A plausible slip: the mirror subtracts the vertex two rows in (v[k+8]).
InterpolateBoundaryPatch_WrongRow(cvs, Q, Qd1, Qd2) ==
    [n \in 1..20 |->
        IF n <= 8
        THEN LET k == (n - 1) \div 2
             IN IF n % 2 = 1
                THEN AddOp(cvs[k], 2 * Q[k], 2 * Qd1[k], 2 * Qd2[k])
                ELSE AddOp(cvs[k + 8], (0 - 1) * Q[k], (0 - 1) * Qd1[k], (0 - 1) * Qd2[k])
        ELSE LET k == n - 9
             IN AddOp(cvs[k], Q[k + 4], Qd1[k + 4], Qd2[k + 4])]

InterpolateBoundaryPatch(cvs, Q, Qd1, Qd2) ==
    [n \in 1..20 |->
        IF n <= 8
        THEN LET k == (n - 1) \div 2       \* M0 - M3
             IN IF n % 2 = 1
                THEN AddOp(cvs[k], 2 * Q[k], 2 * Qd1[k], 2 * Qd2[k])
                ELSE AddOp(cvs[k + 4], (0 - 1) * Q[k], (0 - 1) * Qd1[k], (0 - 1) * Qd2[k])
        ELSE LET k == n - 9
             IN AddOp(cvs[k], Q[k + 4], Qd1[k + 4], Qd2[k + 4])]

\* A plausible slip: the missing corner taken as a single mirror 2.v2 - v4.
CornerM3_SingleMirror(cvs, Q, Qd1, Qd2) ==
    << AddOp(cvs[1], 0, 0, 0),
       AddOp(cvs[2], 2 * Q[3], 2 * Qd1[3], 2 * Qd2[3]),
       AddOp(cvs[4], (0 - 1) * Q[3], (0 - 1) * Qd1[3], (0 - 1) * Qd2[3]),
       AddOp(cvs[5], 0, 0, 0) >>

\* The four calls that stand for the missing corner M3.
CornerM3(cvs, Q, Qd1, Qd2) ==
    << AddOp(cvs[1], (0 - 2) * Q[3], (0 - 2) * Qd1[3], (0 - 2) * Qd2[3]),
       AddOp(cvs[2], 4 * Q[3], 4 * Qd1[3], 4 * Qd2[3]),
       AddOp(cvs[4], 1 * Q[3], 1 * Qd1[3], 1 * Qd2[3]),
       AddOp(cvs[5], (0 - 2) * Q[3], (0 - 2) * Qd1[3], (0 - 2) * Qd2[3]) >>

\* A plausible slip: the right-column mirrors M4 - M6 add the edge vertex
\* once, not twice.
InterpolateCornerPatch_UnitMirror(cvs, Q, Qd1, Qd2) ==
    [n \in 1..6 |->
        LET k == (n - 1) \div 2
        IN IF n % 2 = 1
           THEN AddOp(cvs[k], 2 * Q[k], 2 * Qd1[k], 2 * Qd2[k])
           ELSE AddOp(cvs[k + 3], (0 - 1) * Q[k], (0 - 1) * Qd1[k], (0 - 1) * Qd2[k])]
    \o
    [n \in 1..6 |->
        LET k   == (n - 1) \div 2
            idx == (k + 1) * 4 + 3
        IN IF n % 2 = 1
           THEN AddOp(cvs[k * 3 + 2], Q[idx], Qd1[idx], Qd2[idx])
           ELSE AddOp(cvs[k * 3 + 1], (0 - 1) * Q[idx], (0 - 1) * Qd1[idx], (0 - 1) * Qd2[idx])]
    \o
    CornerM3(cvs, Q, Qd1, Qd2)
    \o
    [n \in 1..9 |->
        LET y   == (n - 1) \div 3
            x   == (n - 1) % 3
            idx == y * 4 + x + 4
        IN AddOp(cvs[y * 3 + x], Q[idx], Qd1[idx], Qd2[idx])]

InterpolateCornerPatch(cvs, Q, Qd1, Qd2) ==
    [n \in 1..6 |->                        \* M0 - M2
        LET k == (n - 1) \div 2
        IN IF n % 2 = 1
           THEN AddOp(cvs[k], 2 * Q[k], 2 * Qd1[k], 2 * Qd2[k])
           ELSE AddOp(cvs[k + 3], (0 - 1) * Q[k], (0 - 1) * Qd1[k], (0 - 1) * Qd2[k])]
    \o
    [n \in 1..6 |->                        \* M4 - M6
        LET k   == (n - 1) \div 2
            idx == (k + 1) * 4 + 3
        IN IF n % 2 = 1
           THEN AddOp(cvs[k * 3 + 2], 2 * Q[idx], 2 * Qd1[idx], 2 * Qd2[idx])
           ELSE AddOp(cvs[k * 3 + 1], (0 - 1) * Q[idx], (0 - 1) * Qd1[idx], (0 - 1) * Qd2[idx])]
    \o
    CornerM3(cvs, Q, Qd1, Qd2)
    \o
    [n \in 1..9 |->                        \* v0 - v8
        LET y   == (n - 1) \div 3
            x   == (n - 1) % 3
            idx == y * 4 + x + 4
        IN AddOp(cvs[y * 3 + x], Q[idx], Qd1[idx], Qd2[idx])]

\* ------------------------------------------------- InterpolateGregoryPatch

\* A plausible slip: the zero test of d11 is dropped.
GregoryDenominators_NoPin(s, t) ==
    LET ss == One - s
        tt == One - t
    IN [f \in 0..3 |->
          CASE f = 0 -> s + t
            [] f = 1 -> IF ss + t = 0  THEN One ELSE ss + t
            [] f = 2 -> IF s + tt = 0  THEN One ELSE s + tt
            [] f = 3 -> IF ss + tt = 0 THEN One ELSE ss + tt]

\* d11, d12, d21, d22: the denominators of the split ratios, a zero sum
\* replaced by 1.0f.  Coordinates in units of 1/GridN.
GregoryDenominators(s, t) ==
    LET ss == One - s
        tt == One - t
    IN [f \in 0..3 |->
          CASE f = 0 -> IF s + t = 0   THEN One ELSE s + t
            [] f = 1 -> IF ss + t = 0  THEN One ELSE ss + t
            [] f = 2 -> IF s + tt = 0  THEN One ELSE s + tt
            [] f = 3 -> IF ss + tt = 0 THEN One ELSE ss + tt]

\* The numerators of weights[4][2].
GregoryNumerators(s, t) ==
    LET ss == One - s
        tt == One - t
    IN [f \in 0..3 |->
          CASE f = 0 -> <<s, t>>
            [] f = 1 -> <<ss, t>>
            [] f = 2 -> <<s, tt>>
            [] f = 3 -> <<ss, tt>>]

\* weights[4][2], in units of 1/RatioScale; weights[f][c] is SplitWeights[f][c+1].
SplitWeights(s, t) ==
    LET d == GregoryDenominators(s, t)
        n == GregoryNumerators(s, t)
    IN [f \in 0..3 |-> <<FDiv(n[f][1], d[f]), FDiv(n[f][2], d[f])>>]

\* A plausible slip: a fifth slot of the table is marked as blended.
permute_FiveBlends ==
    LET p == <<0, 1, 7, 5, 2, -1, -1, 6, 16, -1, -1, 12, 15, -1, 11, 10>>
    IN [i \in 0..15 |-> p[i + 1]]

permute ==
    LET p == <<0, 1, 7, 5, 2, -1, -1, 6, 16, -1, -1, 12, 15, 17, 11, 10>>
    IN [i \in 0..15 |-> p[i + 1]]

fpermute ==
    LET p == << <<3, 4>>, <<9, 8>>, <<19, 18>>, <<13, 14>> >>
    IN [f \in 0..3 |-> p[f + 1]]

\* basisStencils->GetStencil(index): a stencil is a sequence of [v, w].
GetStencil(basisStencils, index) == basisStencils[index]

\* The AddWithWeight calls of one stencil under basis slot i, blended by w
\* (in units of 1/RatioScale; an unblended slot has w = 1.0).
StencilOps(st, Q, Qd1, Qd2, i, w) ==
    [j \in 1..Len(st) |->
        AddOp(st[j].v, Q[i] * w * st[j].w, Qd1[i] * w * st[j].w, Qd2[i] * w * st[j].w)]

\* The loop over the 16 basis slots, from slot i with fcount blends done.
\* acc.fetched lists every GetStencil call: its slot, stencil index and, for a
\* blended slot, the split-ratio pair and blend weight it was given.
RECURSIVE GregoryLoop(_, _, _, _, _, _, _, _, _)
GregoryLoop(basisStencils, stencilIndex, weights, Q, Qd1, Qd2, i, fcount, acc) ==
    IF i = 16 THEN acc
    ELSE
      LET index  == permute[i]
          offset == stencilIndex
      IN IF index = -1
         THEN IF ~(fcount < 4)
              THEN [acc EXCEPT !.ok = FALSE]          \* assert(fcount < 4)
              ELSE
                LET v0 == fpermute[fcount][1]
                    v1 == fpermute[fcount][2]
                    s0 == GetStencil(basisStencils, offset + v0)
                    s1 == GetStencil(basisStencils, offset + v1)
                    w0 == weights[fcount][1]
                    w1 == weights[fcount][2]
                IN GregoryLoop(basisStencils, stencilIndex, weights, Q, Qd1, Qd2,
                       i + 1, fcount + 1,
                       [acc EXCEPT
                          !.ops = @ \o StencilOps(s0, Q, Qd1, Qd2, i, w0)
                                    \o StencilOps(s1, Q, Qd1, Qd2, i, w1),
                          !.fetched = @ \o
                             << [slot |-> i, stencil |-> offset + v0, pair |-> fcount, w |-> w0],
                                [slot |-> i, stencil |-> offset + v1, pair |-> fcount, w |-> w1] >>])
         ELSE
           LET st == GetStencil(basisStencils, offset + index)
           IN GregoryLoop(basisStencils, stencilIndex, weights, Q, Qd1, Qd2,
                  i + 1, fcount,
                  [acc EXCEPT
                     !.ops = @ \o StencilOps(st, Q, Qd1, Qd2, i, RatioScale),
                     !.fetched = @ \o
                        << [slot |-> i, stencil |-> offset + index, pair |-> -1, w |-> RatioScale] >>])

\* InterpolateGregoryPatch: [ok, ops, fetched, d, weights].  Weights of the
\* calls in ops are in units of 1/RatioScale.
InterpolateGregoryPatch(basisStencils, stencilIndex, s, t, Q, Qd1, Qd2) ==
    GregoryLoop(basisStencils, stencilIndex, SplitWeights(s, t), Q, Qd1, Qd2, 0, 0,
        [ok |-> TRUE, ops |-> <<>>, fetched |-> <<>>,
         d |-> GregoryDenominators(s, t), weights |-> SplitWeights(s, t)])

\* ------------------------------------------------------------- the store

\* The stores of the model: arrays sorted by ascending descriptor type, one
\* array per type, each of PatchesPerArray patches.
RECURSIVE AscendingSeqs(_)
AscendingSeqs(n) ==
    IF n = 0 THEN {<<>>}
    ELSE LET shorter == AscendingSeqs(n - 1)
         IN shorter \cup
            {Append(q, ty) : q \in {r \in shorter : Len(r) = n - 1}, ty \in PatchTypes}

Ascending(q) == \A a \in 1..Len(q) - 1 : q[a] < q[a + 1]

Stores == {q \in AscendingSeqs(MaxArrays) : Len(q) >= 1 /\ Ascending(q)}

\* IsFeatureAdaptive(): some stored array is not of the uniform quad kind.
IsFeatureAdaptive(arrays) == \E a \in 1..Len(arrays) : arrays[a] # QUADS

\* GetPatchArrayDescriptor(arrayIndex).GetType()
GetPatchArrayDescriptorType(arrays, arrayIndex) == arrays[arrayIndex + 1]

\* PatchArray::vertIndex: where the array's control vertices start in _patchVerts.
RECURSIVE ArrayVertIndex(_, _)
ArrayVertIndex(arrays, arrayIndex) ==
    IF arrayIndex = 0 THEN 0
    ELSE ArrayVertIndex(arrays, arrayIndex - 1)
         + PatchesPerArray * GetNumControlVerticesOf(arrays[arrayIndex])

\* _patchVerts[n]: the control vertex index stored at position n.
PatchVerts(n) == (3 * n + 1) % NumVerts

\* GetPatchVertices(handle): the IndexArray of the patch, a window of size
\* entries on _patchVerts starting at vert.
GetPatchVertices(arrays, handle) ==
    [vert |-> ArrayVertIndex(arrays, handle.arrayIndex) + handle.vertIndex,
     size |-> GetNumControlVerticesOf(arrays[handle.arrayIndex + 1])]

\* cvs.begin(): the raw pointer the static methods index; entry k is
\* _patchVerts[vert + k], whatever the size of the window.
Begin(cvs) == [k \in 0..19 |-> PatchVerts(cvs.vert + k)]

\* The handles of the store's patches.
Handles(arrays) ==
    {[arrayIndex |-> a, patchIndex |-> a * PatchesPerArray + q,
      vertIndex |-> q * GetNumControlVerticesOf(arrays[a + 1])] :
        a \in 0..Len(arrays) - 1, q \in 0..PatchesPerArray - 1}

\* _paramTable[patchIndex].bitField: the sub-face (u, v) of a depth-1 patch.
ParamBits(patchIndex) == [u |-> patchIndex % 2, v |-> (patchIndex \div 2) % 2]

\* bits.Normalize(s, t): coarse-face coordinates (units of 1/(2*GridN)) to the
\* sub-patch's own (units of 1/GridN): (s - u*frac) / frac with frac = 1/2.
Normalize(bits, s, t) == <<s - bits.u * GridN, t - bits.v * GridN>>

\* The coarse-face samples lying in the sub-patch of bits.
CoarseSamples(bits) ==
    {st \in (0..2 * GridN) \X (0..2 * GridN) :
        LET n == Normalize(bits, st[1], st[2])
        IN n[1] \in 0..GridN /\ n[2] \in 0..GridN}

\* The end-cap stencil table the factory builds: 20 stencils per Gregory-basis
\* patch, none (NULL, <<>>) for a store without such patches.
EndCapStencils(arrays) ==
    IF \E a \in 1..Len(arrays) : arrays[a] = GREGORY_BASIS
    THEN [k \in 0..20 * PatchesPerArray - 1 |->
            [j \in 1..1 + (k % 2) |->
                [v |-> (5 * k + 7 * j) % NumVerts, w |-> 1 + ((k + j) % 2)]]]
    ELSE <<>>

\* ------------------------------------------------------ getBasisWeightsAtUV

\* Cubic Bezier basis at s = a/GridN, in units of 1/GridN^3, and its
\* derivative in units of 1/GridN^2.
BezierWeights(a) ==
    LET b == One - a
    IN [point |-> <<b * b * b, 3 * a * b * b, 3 * a * a * b, a * a * a>>,
        deriv |-> <<(0 - 3) * b * b, 3 * b * b - 6 * a * b,
                    6 * a * b - 3 * a * a, 3 * a * a>>]

\* Uniform cubic B-spline basis at s = a/GridN, in units of 1/(6*GridN^3),
\* and its derivative in units of 1/(2*GridN^2).
BSplineWeights(a) ==
    LET b == One - a
        G == One
    IN [point |-> <<b * b * b,
                    3 * a * a * a - 6 * a * a * G + 4 * G * G * G,
                    (0 - 3) * a * a * a + 3 * a * a * G + 3 * a * G * G + G * G * G,
                    a * a * a>>,
        deriv |-> <<0 - b * b, 3 * a * a - 4 * a * G,
                    (0 - 3) * a * a + 2 * a * G + G * G, a * a>>]

\* getBasisWeightsAtUV(basis, bits, s, t, point, deriv1, deriv2): the tensor
\* product of the 1-D weights, slot 4*i+j taking column j in s and row i in t.
getBasisWeightsAtUV(basis, s, t) ==
    LET sW == IF basis = BASIS_BEZIER THEN BezierWeights(s) ELSE BSplineWeights(s)
        tW == IF basis = BASIS_BEZIER THEN BezierWeights(t) ELSE BSplineWeights(t)
    IN [Q   |-> [k \in 0..15 |-> sW.point[(k % 4) + 1] * tW.point[(k \div 4) + 1]],
        Qd1 |-> [k \in 0..15 |-> sW.deriv[(k % 4) + 1] * tW.point[(k \div 4) + 1]],
        Qd2 |-> [k \in 0..15 |-> sW.point[(k % 4) + 1] * tW.deriv[(k \div 4) + 1]]]

\* ----------------------------------------------------------- entry points

\* What a call leaves behind besides the calls on dst.
GregoryTrace(g) == [ok |-> g.ok, fetched |-> g.fetched, d |-> g.d, weights |-> g.weights]

NoGregory == [ok |-> TRUE, fetched |-> <<>>, d |-> <<>>, weights |-> <<>>]

NoWeights == [Q |-> <<>>, Qd1 |-> <<>>, Qd2 |-> <<>>]

NoTrace == [basis |-> "none", path |-> "none", cvsRead |-> FALSE, cvs |-> <<>>,
            s |-> -1, t |-> -1, W |-> NoWeights, greg |-> NoGregory]

\* The outcome of a call: how it ended, its calls on dst, its trace.
Returned(ops, tr) == [status |-> "done", log |-> ops, trace |-> tr]

AssertFailed(ops, tr) == [status |-> "aborted", log |-> ops, trace |-> tr]

\* A plausible slip: the destination is not reset before accumulating.
Interpolate_NoClear(arrays, handle, s, t) ==
    IF ~(~IsFeatureAdaptive(arrays))
    THEN AssertFailed(<<>>, NoTrace)
    ELSE
      LET cvs == GetPatchVertices(arrays, handle)
          st  == Normalize(ParamBits(handle.patchIndex), s, t)
          tr  == [NoTrace EXCEPT !.path = "InterpolateBilinear", !.cvsRead = TRUE,
                                 !.cvs = Begin(cvs), !.s = st[1], !.t = st[2]]
      IN Returned(InterpolateBilinear(Begin(cvs), st[1], st[2]), tr)

\* A plausible slip: the precondition is not asserted.
Interpolate_NoAssert(arrays, handle, s, t) ==
    LET cvs == GetPatchVertices(arrays, handle)
        st  == Normalize(ParamBits(handle.patchIndex), s, t)
        tr  == [NoTrace EXCEPT !.path = "InterpolateBilinear", !.cvsRead = TRUE,
                               !.cvs = Begin(cvs), !.s = st[1], !.t = st[2]]
    IN Returned(<<ClearOp>> \o InterpolateBilinear(Begin(cvs), st[1], st[2]), tr)

\* PatchTables::Interpolate
Interpolate(arrays, handle, s, t) ==
    IF ~(~IsFeatureAdaptive(arrays))                    \* assert(not IsFeatureAdaptive())
    THEN AssertFailed(<<>>, NoTrace)
    ELSE
      LET cvs == GetPatchVertices(arrays, handle)
          st  == Normalize(ParamBits(handle.patchIndex), s, t)
          tr  == [NoTrace EXCEPT !.path = "InterpolateBilinear", !.cvsRead = TRUE,
                                 !.cvs = Begin(cvs), !.s = st[1], !.t = st[2]]
      IN Returned(<<ClearOp>> \o InterpolateBilinear(Begin(cvs), st[1], st[2]), tr)

\* A plausible slip: a boundary patch is evaluated as a regular one.
LimitBicubic_BoundaryAsRegular(ptype, cvs, W, tr) ==
    CASE ptype = REGULAR \/ ptype = BOUNDARY ->
           Returned(<<ClearOp>> \o InterpolateRegularPatch(Begin(cvs), W.Q, W.Qd1, W.Qd2),
                    [tr EXCEPT !.path = "InterpolateRegularPatch"])
      [] ptype = SINGLE_CREASE ->
           Returned(<<ClearOp>>, [tr EXCEPT !.path = "SINGLE_CREASE"])
      [] ptype = CORNER ->
           Returned(<<ClearOp>> \o InterpolateCornerPatch(Begin(cvs), W.Q, W.Qd1, W.Qd2),
                    [tr EXCEPT !.path = "InterpolateCornerPatch"])
      [] OTHER ->
           AssertFailed(<<ClearOp>>, tr)

\* A plausible slip: the commented-out call of the single-crease case is live.
LimitBicubic_CreaseAsRegular(ptype, cvs, W, tr) ==
    CASE ptype = REGULAR \/ ptype = SINGLE_CREASE ->
           Returned(<<ClearOp>> \o InterpolateRegularPatch(Begin(cvs), W.Q, W.Qd1, W.Qd2),
                    [tr EXCEPT !.path = "InterpolateRegularPatch"])
      [] ptype = BOUNDARY ->
           Returned(<<ClearOp>> \o InterpolateBoundaryPatch(Begin(cvs), W.Q, W.Qd1, W.Qd2),
                    [tr EXCEPT !.path = "InterpolateBoundaryPatch"])
      [] ptype = CORNER ->
           Returned(<<ClearOp>> \o InterpolateCornerPatch(Begin(cvs), W.Q, W.Qd1, W.Qd2),
                    [tr EXCEPT !.path = "InterpolateCornerPatch"])
      [] OTHER ->
           AssertFailed(<<ClearOp>>, tr)

\* The switch of the bicubic branch of Limit (dst already cleared).
LimitBicubic(ptype, cvs, W, tr) ==
    CASE ptype = REGULAR ->
           Returned(<<ClearOp>> \o InterpolateRegularPatch(Begin(cvs), W.Q, W.Qd1, W.Qd2),
                    [tr EXCEPT !.path = "InterpolateRegularPatch"])
      [] ptype = SINGLE_CREASE ->
           \* TODO: implement InterpolateSingleCreasePatch().
           Returned(<<ClearOp>>, [tr EXCEPT !.path = "SINGLE_CREASE"])
      [] ptype = BOUNDARY ->
           Returned(<<ClearOp>> \o InterpolateBoundaryPatch(Begin(cvs), W.Q, W.Qd1, W.Qd2),
                    [tr EXCEPT !.path = "InterpolateBoundaryPatch"])
      [] ptype = CORNER ->
           Returned(<<ClearOp>> \o InterpolateCornerPatch(Begin(cvs), W.Q, W.Qd1, W.Qd2),
                    [tr EXCEPT !.path = "InterpolateCornerPatch"])
      [] ptype = GREGORY \/ ptype = GREGORY_BOUNDARY ->
           AssertFailed(<<ClearOp>>, tr)                \* assert(0)
      [] OTHER ->
           AssertFailed(<<ClearOp>>, tr)                \* assert(0)

\* A plausible slip: the stencils are fetched from the start of the table,
\* not from the handle's offset.
LimitGregoryBasis_BaseZero(stencils, handle, s, t, tr) ==
    LET W  == getBasisWeightsAtUV(BASIS_BEZIER, s, t)
        g  == InterpolateGregoryPatch(stencils, 0, s, t, W.Q, W.Qd1, W.Qd2)
        tg == [tr EXCEPT !.basis = BASIS_BEZIER, !.W = W,
                         !.path = "InterpolateGregoryPatch", !.greg = GregoryTrace(g)]
    IN IF g.ok THEN Returned(<<ClearOp>> \o g.ops, tg)
       ELSE AssertFailed(<<ClearOp>> \o g.ops, tg)

\* The Gregory-basis branch of Limit (dst already cleared).
LimitGregoryBasis(stencils, handle, s, t, tr) ==
    IF stencils = <<>>                                  \* assert(_endcapStencilTables)
    THEN AssertFailed(<<ClearOp>>, tr)
    ELSE
      LET W  == getBasisWeightsAtUV(BASIS_BEZIER, s, t)
          g  == InterpolateGregoryPatch(stencils, handle.vertIndex, s, t, W.Q, W.Qd1, W.Qd2)
          tg == [tr EXCEPT !.basis = BASIS_BEZIER, !.W = W,
                           !.path = "InterpolateGregoryPatch", !.greg = GregoryTrace(g)]
      IN IF g.ok THEN Returned(<<ClearOp>> \o g.ops, tg)
         ELSE AssertFailed(<<ClearOp>> \o g.ops, tg)

\* A plausible slip: an unsupported kind is skipped without an assertion.
LimitUnsupported_Silent(tr) == Returned(<<ClearOp>>, tr)

\* The last branch of Limit: assert(0) (dst already cleared).
LimitUnsupported(tr) == AssertFailed(<<ClearOp>>, tr)

\* Limit after its precondition: normalize, read the kind, clear, dispatch.
LimitDispatch(arrays, stencils, handle, s, t) ==
    LET st    == Normalize(ParamBits(handle.patchIndex), s, t)
        ptype == GetPatchArrayDescriptorType(arrays, handle.arrayIndex)
        tr    == [NoTrace EXCEPT !.s = st[1], !.t = st[2]]
    IN IF ptype >= REGULAR /\ ptype <= CORNER
       THEN LET W   == getBasisWeightsAtUV(BASIS_BSPLINE, st[1], st[2])
                cvs == GetPatchVertices(arrays, handle)
            IN LimitBicubic(ptype, cvs, W,
                   [tr EXCEPT !.basis = BASIS_BSPLINE, !.W = W,
                              !.cvsRead = TRUE, !.cvs = Begin(cvs)])
       ELSE IF ptype = GREGORY_BASIS
       THEN LimitGregoryBasis(stencils, handle, st[1], st[2], tr)
       ELSE LimitUnsupported(tr)

\* A plausible slip: dst.Clear() is hoisted above the precondition.
Limit_ClearFirst(arrays, stencils, handle, s, t) ==
    IF ~IsFeatureAdaptive(arrays)
    THEN AssertFailed(<<ClearOp>>, NoTrace)
    ELSE LimitDispatch(arrays, stencils, handle, s, t)

\* A plausible slip: Limit accumulates without resetting the destination.
Limit_NoClear(arrays, stencils, handle, s, t) ==
    LET r == IF ~IsFeatureAdaptive(arrays)
             THEN AssertFailed(<<>>, NoTrace)
             ELSE LimitDispatch(arrays, stencils, handle, s, t)
    IN [r EXCEPT !.log = SelectSeq(r.log, LAMBDA o : o.op # "Clear")]

\* PatchTables::Limit
Limit(arrays, stencils, handle, s, t) ==
    IF ~IsFeatureAdaptive(arrays)                       \* assert(IsFeatureAdaptive())
    THEN AssertFailed(<<>>, NoTrace)
    ELSE LimitDispatch(arrays, stencils, handle, s, t)

\* ------------------------------------------------------- the caller's inputs

\* Source buffers.  In the unit buffer vertex v carries the unit vector of
\* component v+1, so that component v+1 of the destination is the total
\* weight the call gave to vertex v; the other buffer holds curved data.
UnitBuffer == [v \in 0..NumVerts - 1 |-> [c \in Components |-> IF c = v + 1 THEN 1 ELSE 0]]

CurvedBuffer == [v \in 0..NumVerts - 1 |-> [c \in Components |-> ((v * v + c) % 7) - 2]]

SrcBuffers == {UnitBuffer, CurvedBuffer}

\* What the destination may hold before a call.
DstValues ==
    {ZeroDst,
     [p |-> [c \in Components |-> 5], d1 |-> [c \in Components |-> 0 - 3],
      d2 |-> [c \in Components |-> c + 7]]}

UnitVec(i, c) == [k \in 0..15 |-> IF k = i THEN c ELSE 0]

DenseVec(m) == [k \in 0..15 |-> (((k + 1) * (m + 2)) % 7) - 3]

\* The weights a caller of the static methods passes: every slot alone, with
\* different weights in the three channels, and dense vectors.
WeightTriples ==
    {[Q |-> UnitVec(i, 1), Qd1 |-> UnitVec(i, 2), Qd2 |-> UnitVec(i, 0 - 1)] : i \in 0..15}
    \cup {[Q |-> DenseVec(m), Qd1 |-> DenseVec(m + 1), Qd2 |-> DenseVec(m + 2)] : m \in 1..2}

HandlesOf(arrays, type) ==
    {h \in Handles(arrays) : GetPatchArrayDescriptorType(arrays, h.arrayIndex) = type}

\* ------------------------------------------------------------- behaviours

NoHandle == [arrayIndex |-> -1, patchIndex |-> -1, vertIndex |-> -1]

NoCall == [fn |-> "none", handle |-> NoHandle, s |-> -1, t |-> -1]

\* No worker threads; no copy of the store.
NoWorkers == <<>>

NoCopy == [made |-> FALSE, patchArrays |-> <<>>, endcapStencilTables |-> <<>>,
           status |-> "idle", log |-> <<>>, dst |-> ZeroDst]

Init ==
    /\ patchArrays \in Stores
    /\ endcapStencilTables = EndCapStencils(patchArrays)
    /\ src \in SrcBuffers
    /\ dst \in DstValues
    /\ dstBefore = dst
    /\ log = <<>>
    /\ pc = "idle"
    /\ call = NoCall
    /\ trace = NoTrace
    /\ workers = NoWorkers
    /\ copy = NoCopy

\* The effect of a call on the caller's state: the calls it made on dst are
\* applied in order; the store, the stencil table and src are only read.
Finish(fn, handle, s, t, r) ==
    /\ pc' = r.status
    /\ log' = r.log
    /\ dst' = ApplyOps(r.log, src, dst)
    /\ call' = [fn |-> fn, handle |-> handle, s |-> s, t |-> t]
    /\ trace' = r.trace
    /\ UNCHANGED <<patchArrays, endcapStencilTables, src, dstBefore, workers, copy>>

\* tables.Interpolate(handle, s, t, src, dst)
InterpolateCall ==
    /\ pc = "idle"
    /\ \E h \in Handles(patchArrays) :
         \E st \in CoarseSamples(ParamBits(h.patchIndex)) :
            Finish("Interpolate", h, st[1], st[2],
                   Interpolate(patchArrays, h, st[1], st[2]))

\* tables.Limit(handle, s, t, src, dst)
LimitCall ==
    /\ pc = "idle"
    /\ \E h \in Handles(patchArrays) :
         \E st \in CoarseSamples(ParamBits(h.patchIndex)) :
            Finish("Limit", h, st[1], st[2],
                   Limit(patchArrays, endcapStencilTables, h, st[1], st[2]))

\* PatchTables::InterpolateBilinear(cvs, s, t, src, dst) on a quad's vertices
InterpolateBilinearCall ==
    /\ pc = "idle"
    /\ \E h \in HandlesOf(patchArrays, QUADS) :
         \E s \in 0..GridN, t \in 0..GridN :
            LET cvs == Begin(GetPatchVertices(patchArrays, h))
            IN Finish("InterpolateBilinear", h, s, t,
                      Returned(InterpolateBilinear(cvs, s, t),
                               [NoTrace EXCEPT !.path = "InterpolateBilinear",
                                               !.cvs = cvs, !.s = s, !.t = t]))

\* PatchTables::InterpolateRegularPatch(cvs, Q, Qd1, Qd2, src, dst) on the vertices of
\* a regular patch, with weights of the caller's choice.
InterpolateRegularPatchCall ==
    /\ pc = "idle"
    /\ \E h \in HandlesOf(patchArrays, REGULAR) :
         \E W \in WeightTriples :
            LET cvs == Begin(GetPatchVertices(patchArrays, h))
            IN Finish("InterpolateRegularPatch", h, -1, -1,
                      Returned(InterpolateRegularPatch(cvs, W.Q, W.Qd1, W.Qd2),
                               [NoTrace EXCEPT !.path = "InterpolateRegularPatch",
                                               !.cvs = cvs, !.W = W]))

\* PatchTables::InterpolateBoundaryPatch(cvs, Q, Qd1, Qd2, src, dst) on the vertices of
\* a boundary patch, with weights of the caller's choice.
InterpolateBoundaryPatchCall ==
    /\ pc = "idle"
    /\ \E h \in HandlesOf(patchArrays, BOUNDARY) :
         \E W \in WeightTriples :
            LET cvs == Begin(GetPatchVertices(patchArrays, h))
            IN Finish("InterpolateBoundaryPatch", h, -1, -1,
                      Returned(InterpolateBoundaryPatch(cvs, W.Q, W.Qd1, W.Qd2),
                               [NoTrace EXCEPT !.path = "InterpolateBoundaryPatch",
                                               !.cvs = cvs, !.W = W]))

\* PatchTables::InterpolateCornerPatch(cvs, Q, Qd1, Qd2, src, dst) on the vertices of
\* a corner patch, with weights of the caller's choice.
InterpolateCornerPatchCall ==
    /\ pc = "idle"
    /\ \E h \in HandlesOf(patchArrays, CORNER) :
         \E W \in WeightTriples :
            LET cvs == Begin(GetPatchVertices(patchArrays, h))
            IN Finish("InterpolateCornerPatch", h, -1, -1,
                      Returned(InterpolateCornerPatch(cvs, W.Q, W.Qd1, W.Qd2),
                               [NoTrace EXCEPT !.path = "InterpolateCornerPatch",
                                               !.cvs = cvs, !.W = W]))

\* PatchTables::InterpolateGregoryPatch(stencils, stencilIndex, s, t, Q, ...)
\* on the store's end-cap stencils, with weights of the caller's choice.
InterpolateGregoryPatchCall ==
    /\ pc = "idle"
    /\ endcapStencilTables # <<>>
    /\ \E h \in HandlesOf(patchArrays, GREGORY_BASIS) :
         \E s \in 0..GridN, t \in 0..GridN, m \in 1..2 :
            LET W == [Q |-> DenseVec(m), Qd1 |-> DenseVec(m + 1), Qd2 |-> DenseVec(m + 2)]
                g == InterpolateGregoryPatch(endcapStencilTables, h.vertIndex,
                                             s, t, W.Q, W.Qd1, W.Qd2)
                tr == [NoTrace EXCEPT !.path = "InterpolateGregoryPatch",
                                      !.s = s, !.t = t, !.W = W,
                                      !.greg = GregoryTrace(g)]
            IN Finish("InterpolateGregoryPatch", h, s, t,
                      IF g.ok THEN Returned(g.ops, tr) ELSE AssertFailed(g.ops, tr))

Next ==
    \/ InterpolateCall
    \/ LimitCall
    \/ InterpolateBilinearCall
    \/ InterpolateRegularPatchCall
    \/ InterpolateBoundaryPatchCall
    \/ InterpolateCornerPatchCall
    \/ InterpolateGregoryPatchCall

Spec == Init /\ [][Next]_vars

\* -------------------------------------------------- evaluation on a copy
\*
\* The store is copy-constructed, and the Limit call made on the original is
\* made again on the copy with the same handle, sample and source buffer, into
\* a destination of its own.

\* PatchTables(PatchTables const & src): a store with equal tables.
CopyOf(arrays, stencils) ==
    [NoCopy EXCEPT !.made = TRUE, !.patchArrays = arrays, !.endcapStencilTables = stencils]

CopyInit ==
    /\ Init
    /\ dst # copy.dst

\* PatchTables copy(tables)
CopyConstructCall ==
    /\ ~copy.made
    /\ copy' = CopyOf(patchArrays, endcapStencilTables)
    /\ UNCHANGED <<patchArrays, endcapStencilTables, src, dst, dstBefore, log, pc,
                   call, trace, workers>>

\* copy.Limit(handle, s, t, src, dst2) with the arguments of the call made on
\* the original.
LimitOnCopyCall ==
    /\ pc # "idle"
    /\ call.fn = "Limit"
    /\ copy.made
    /\ copy.status = "idle"
    /\ LET r == Limit(copy.patchArrays, copy.endcapStencilTables, call.handle, call.s, call.t)
       IN copy' = [copy EXCEPT !.status = r.status, !.log = r.log,
                               !.dst = ApplyOps(r.log, src, copy.dst)]
    /\ UNCHANGED <<patchArrays, endcapStencilTables, src, dst, dstBefore, log, pc,
                   call, trace, workers>>

CopyNext ==
    \/ CopyConstructCall
    \/ LimitCall
    \/ LimitOnCopyCall

CopySpec == CopyInit /\ [][CopyNext]_vars

\* --------------------------------------------------- concurrent evaluation
\*
\* Worker threads evaluate one constructed store in parallel, each through its
\* own Interpolate or Limit call.  On entry a worker reads the store and the
\* stencil table into its locals (the weights, the vertices to read); a step
\* of a worker is then one call it makes on its destination, reading src; the
\* steps of the workers interleave freely.

Workers == 1..NumWorkers

\* A plausible slip: the workers are handed one destination.
DestinationOf_Shared(w) == 1

\* The U & dst argument of worker w's call: a destination of its own.
DestinationOf(w) == w

\* What worker w's destination holds before its call.
WorkerDst(w) ==
    [p |-> [c \in Components |-> w], d1 |-> [c \in Components |-> 0 - w],
     d2 |-> [c \in Components |-> c + w]]

\* The stores evaluated concurrently: one array, of any kind.
ConcurrentStores == {q \in Stores : Len(q) = 1}

\* The patch of worker w: one worker per patch, in turn.
WorkerHandles(arrays, w) ==
    {h \in Handles(arrays) : h.patchIndex = (w - 1) % PatchesPerArray}

\* The sample of a worker: the point (1/GridN, 1/GridN) of its sub-patch.
WorkerSamples(bits) ==
    {st \in CoarseSamples(bits) : Normalize(bits, st[1], st[2]) = <<1, 1>>}

\* The call of a worker, run by the code of the entry point it names.
WorkerOutcome(c) ==
    IF c.fn = "Interpolate"
    THEN Interpolate(patchArrays, c.handle, c.s, c.t)
    ELSE Limit(patchArrays, endcapStencilTables, c.handle, c.s, c.t)

ConcurrentInit ==
    /\ patchArrays \in ConcurrentStores
    /\ endcapStencilTables = EndCapStencils(patchArrays)
    /\ src = CurvedBuffer
    /\ dst = ZeroDst
    /\ dstBefore = ZeroDst
    /\ log = <<>>
    /\ pc = "idle"
    /\ call = NoCall
    /\ trace = NoTrace
    /\ workers = [w \in Workers |->
                    [pc |-> "idle", call |-> NoCall, n |-> 0,
                     todo |-> <<>>, end |-> "idle",
                     dst |-> WorkerDst(w), dstBefore |-> WorkerDst(w)]]
    /\ copy = NoCopy

\* Worker w enters fn(handle, s, t, src, dst): the precondition is asserted.
WorkerEnter(w, fn, handle, s, t) ==
    LET c == [fn |-> fn, handle |-> handle, s |-> s, t |-> t]
        r == WorkerOutcome(c)
    IN /\ workers[w].pc = "idle"
       /\ workers' = [workers EXCEPT
                         ![w].call = c,
                         ![w].todo = r.log,
                         ![w].end = r.status,
                         ![w].pc = IF r.log = <<>> THEN r.status ELSE "running"]
       /\ UNCHANGED <<patchArrays, endcapStencilTables, src, dst, dstBefore, log, pc,
                      call, trace, copy>>

WorkerInterpolate(w) ==
    \E h \in WorkerHandles(patchArrays, w) :
       \E st \in WorkerSamples(ParamBits(h.patchIndex)) :
          WorkerEnter(w, "Interpolate", h, st[1], st[2])

WorkerLimit(w) ==
    \E h \in WorkerHandles(patchArrays, w) :
       \E st \in WorkerSamples(ParamBits(h.patchIndex)) :
          WorkerEnter(w, "Limit", h, st[1], st[2])

\* Worker w makes its next call on its destination (dst.Clear() or one
\* dst.AddWithWeight(src[v], ...)), reading src as it is now; after its last
\* call it returns, or stops at the assertion that failed.
WorkerStep(w) ==
    LET me == workers[w]
        d  == DestinationOf(w)
        to == ApplyOps(<<Head(me.todo)>>, src, workers[d].dst)
    IN /\ me.pc = "running"
       /\ me.todo # <<>>
       /\ workers' = [v \in Workers |->
              LET a == IF v = d THEN [workers[v] EXCEPT !.dst = to] ELSE workers[v]
              IN IF v = w
                 THEN [a EXCEPT !.n = me.n + 1,
                                !.todo = Tail(me.todo),
                                !.pc = IF Len(me.todo) = 1 THEN me.end ELSE "running"]
                 ELSE a]
       /\ UNCHANGED <<patchArrays, endcapStencilTables, src, dst, dstBefore, log, pc,
                      call, trace, copy>>

ConcurrentNext ==
    \E w \in Workers :
       \/ WorkerInterpolate(w)
       \/ WorkerLimit(w)
       \/ WorkerStep(w)

ConcurrentSpec == ConcurrentInit /\ [][ConcurrentNext]_vars

\* ================================================================ claims

\* The descriptor type of the array the call's handle names.
CallType == GetPatchArrayDescriptorType(patchArrays, call.handle.arrayIndex)

\* What the accumulation of the call started from: Limit and Interpolate
\* reset the destination first, the static methods add to what it held.
AccumulationBase ==
    IF call.fn \in {"Limit", "Interpolate"} THEN ZeroDst ELSE dstBefore

\* The mirror of primvar value b in a: 2.a - b.
Mirror(a, b) == [c \in Components |-> 2 * a[c] - b[c]]

\* src with 16 more vertices NumVerts .. NumVerts+15 holding the grid g.
WithGrid(g) ==
    [v \in 0..NumVerts + 15 |-> IF v < NumVerts THEN src[v] ELSE g[v - NumVerts]]

\* The control vertices of that grid.
GridCvs == [k \in 0..15 |-> NumVerts + k]

\* InterpolateRegularPatch on the 4x4 grid g of primvar values, with the
\* weights of the call, accumulated from the base.
RegularOnGrid(g) ==
    ApplyOps(InterpolateRegularPatch(GridCvs, trace.W.Q, trace.W.Qd1, trace.W.Qd2),
             WithGrid(g), AccumulationBase)

\* The boundary patch extended to 4x4: row 0 is M[k] = 2.v[k] - v[k+4], rows
\* 1..3 are the 12 stored vertices.
BoundaryGrid ==
    LET v == [k \in 0..11 |-> src[trace.cvs[k]]]
    IN [k \in 0..15 |-> IF k < 4 THEN Mirror(v[k], v[k + 4]) ELSE v[k - 4]]

BoundaryDone == pc = "done" /\ trace.path = "InterpolateBoundaryPatch"

\* C1: a boundary patch evaluates, in value and both derivatives, to what
\* InterpolateRegularPatch gives on the 4x4 grid whose missing first row is
\* M[k] = 2.v[k] - v[k+4] and whose rows 1..3 are the stored vertices.
C1_BoundaryIsRegularOnMirroredGrid ==
    BoundaryDone => dst = RegularOnGrid(BoundaryGrid)

\* C1 witness: a direct call giving weight to a mirrored slot only, on the
\* unit buffer, from a destination that held data.
C1_Witness ==
    /\ BoundaryDone
    /\ call.fn = "InterpolateBoundaryPatch"
    /\ src = UnitBuffer
    /\ trace.W.Q[2] # 0
    /\ dstBefore # ZeroDst
    /\ dst.p[trace.cvs[2] + 1] = dstBefore.p[trace.cvs[2] + 1] + 2 * trace.W.Q[2]
    /\ dst.p[trace.cvs[6] + 1] = dstBefore.p[trace.cvs[6] + 1] - trace.W.Q[2]

\* The corner patch extended to 4x4: the stored v[3y+x] at slot 4y+x+4, the
\* top row 2.v[k] - v[k+3] at slots 0..2, the right column 2.v[3k+2] - v[3k+1]
\* at slots 7, 11, 15, the corner -2.v1 + 4.v2 + v4 - 2.v5 at slot 3.
CornerGrid ==
    LET v == [k \in 0..8 |-> src[trace.cvs[k]]]
    IN [k \in 0..15 |->
          LET y == k \div 4
              x == k % 4
          IN CASE k = 3 ->
                    [c \in Components |->
                        (0 - 2) * v[1][c] + 4 * v[2][c] + v[4][c] - 2 * v[5][c]]
               [] y = 0 /\ x < 3 -> Mirror(v[x], v[x + 3])
               [] y > 0 /\ x = 3 -> Mirror(v[3 * (y - 1) + 2], v[3 * (y - 1) + 1])
               [] OTHER -> v[3 * (y - 1) + x]]

CornerDone == pc = "done" /\ trace.path = "InterpolateCornerPatch"

\* C2: a corner patch evaluates to what InterpolateRegularPatch gives on the
\* extended 4x4 grid, and the corner of that grid is the mirror of the two
\* edge mirrors taken in either order.
C2_CornerIsRegularOnMirroredGrid ==
    CornerDone =>
       /\ dst = RegularOnGrid(CornerGrid)
       /\ CornerGrid[3] = Mirror(CornerGrid[7], CornerGrid[11])
       /\ CornerGrid[3] = Mirror(CornerGrid[2], CornerGrid[1])

\* C2 witness: a direct call giving weight to the missing corner only.
C2_Witness ==
    /\ CornerDone
    /\ call.fn = "InterpolateCornerPatch"
    /\ src = UnitBuffer
    /\ trace.W.Q[3] # 0
    /\ dst.p[trace.cvs[2] + 1] = dstBefore.p[trace.cvs[2] + 1] + 4 * trace.W.Q[3]
    /\ dst.p[trace.cvs[4] + 1] = dstBefore.p[trace.cvs[4] + 1] + trace.W.Q[3]

\* The Gregory evaluation ran (from Limit or called directly).
GregoryRan == trace.path = "InterpolateGregoryPatch"

\* The call evaluated the patch at a corner of its domain.
AtDomainCorner == trace.s \in {0, One} /\ trace.t \in {0, One}

\* The split-ratio pair whose two numerators and whose sum both vanish at
\* the corner (s, t): s/(s+t) at (0,0), (1-s)/((1-s)+t) at (1,0), ...
DegeneratePair ==
    CASE trace.s = 0   /\ trace.t = 0   -> 0
      [] trace.s = One /\ trace.t = 0   -> 1
      [] trace.s = 0   /\ trace.t = One -> 2
      [] trace.s = One /\ trace.t = One -> 3

AddsOf(ops) == SelectSeq(ops, LAMBDA o : o.op = "AddWithWeight")

LimitDone == pc = "done" /\ call.fn = "Limit"

\* The inputs Limit hands to the method it dispatches to.
HandleCvs == Begin(GetPatchVertices(patchArrays, call.handle))

NormalizedST == Normalize(ParamBits(call.handle.patchIndex), call.s, call.t)

SmoothWeights == getBasisWeightsAtUV(BASIS_BSPLINE, NormalizedST[1], NormalizedST[2])

ControlPointWeights == getBasisWeightsAtUV(BASIS_BEZIER, NormalizedST[1], NormalizedST[2])

\* C4: Limit dispatches on the kind of the handle's array: REGULAR to the
\* 16-vertex direct sum, BOUNDARY to the 12-vertex mirrored sum, CORNER to the
\* 9-vertex mirrored sum, all with B-spline weights and the handle's control
\* vertices; GREGORY_BASIS to the stencil evaluation with Bezier weights, the
\* owned stencil table and handle.vertIndex as base; the calls on dst are
\* those of that one path and no other.
C4_LimitDispatch ==
    LimitDone =>
       LET W == SmoothWeights
           B == ControlPointWeights
       IN CASE CallType = REGULAR ->
                 /\ trace.path = "InterpolateRegularPatch" /\ trace.basis = BASIS_BSPLINE
                 /\ Len(log) = 17
                 /\ \A k \in 0..15 :
                       log[k + 2] = AddOp(HandleCvs[k], W.Q[k], W.Qd1[k], W.Qd2[k])
            [] CallType = BOUNDARY ->
                 /\ trace.path = "InterpolateBoundaryPatch" /\ trace.basis = BASIS_BSPLINE
                 /\ Len(log) = 21
                 /\ Tail(log) = InterpolateBoundaryPatch(HandleCvs, W.Q, W.Qd1, W.Qd2)
                 /\ \A n \in 2..21 : \E k \in 0..11 : log[n].v = HandleCvs[k]
            [] CallType = CORNER ->
                 /\ trace.path = "InterpolateCornerPatch" /\ trace.basis = BASIS_BSPLINE
                 /\ Len(log) = 26
                 /\ Tail(log) = InterpolateCornerPatch(HandleCvs, W.Q, W.Qd1, W.Qd2)
                 /\ \A n \in 2..26 : \E k \in 0..8 : log[n].v = HandleCvs[k]
            [] CallType = GREGORY_BASIS ->
                 /\ trace.path = "InterpolateGregoryPatch" /\ trace.basis = BASIS_BEZIER
                 /\ endcapStencilTables # <<>>
                 /\ Tail(log) = InterpolateGregoryPatch(endcapStencilTables,
                                    call.handle.vertIndex, NormalizedST[1], NormalizedST[2],
                                    B.Q, B.Qd1, B.Qd2).ops
            [] OTHER -> TRUE

\* C4 witness: Limit returned from a boundary patch that is not the first
\* patch of the store, at an interior sample.
C4_Witness ==
    /\ LimitDone
    /\ CallType = BOUNDARY
    /\ call.handle.patchIndex > 0
    /\ trace.s = 1 /\ trace.t = 1
    /\ Len(log) = 21

\* The GetStencil calls made for basis slot i.
FetchesOf(i) == SelectSeq(trace.greg.fetched, LAMBDA f : f.slot = i)

\* The AddWithWeight calls the fetched stencils expand to, in fetch order:
\* each source vertex of the stencil with basis weight x blend x its weight.
RECURSIVE FetchedOps(_)
FetchedOps(fs) ==
    IF fs = <<>> THEN <<>>
    ELSE LET f == Head(fs)
         IN StencilOps(GetStencil(endcapStencilTables, f.stencil),
                       trace.W.Q, trace.W.Qd1, trace.W.Qd2, f.slot, f.w)
            \o FetchedOps(Tail(fs))

InnerSlots == {5, 6, 9, 10}

\* C5: a Gregory-basis evaluation does not read the patch's stored control
\* vertices: 12 of the 16 slots take one stencil, the 4 inner slots 5, 6, 9,
\* 10 take a blend of two stencils weighted by one split-ratio pair, every
\* stencil fetched lies in [stencilIndex, stencilIndex+19] with stencilIndex
\* the handle's vertIndex, and every contribution comes from those stencils.
C5_GregoryUsesStencilsOnly ==
    (GregoryRan /\ pc = "done") =>
       /\ ~trace.cvsRead
       /\ \A i \in (0..15) \ InnerSlots :
             /\ Len(FetchesOf(i)) = 1
             /\ FetchesOf(i)[1].pair = -1
             /\ FetchesOf(i)[1].w = RatioScale
       /\ \A i \in InnerSlots :
             /\ Len(FetchesOf(i)) = 2
             /\ FetchesOf(i)[1].pair \in 0..3
             /\ FetchesOf(i)[2].pair = FetchesOf(i)[1].pair
             /\ FetchesOf(i)[1].stencil # FetchesOf(i)[2].stencil
             /\ FetchesOf(i)[1].w = trace.greg.weights[FetchesOf(i)[1].pair][1]
             /\ FetchesOf(i)[2].w = trace.greg.weights[FetchesOf(i)[1].pair][2]
       /\ \A n \in 1..Len(trace.greg.fetched) :
             /\ trace.greg.fetched[n].stencil >= call.handle.vertIndex
             /\ trace.greg.fetched[n].stencil <= call.handle.vertIndex + 19
       /\ AddsOf(log) = FetchedOps(trace.greg.fetched)

\* C5 witness: Limit on the second Gregory-basis patch of its array (stencil
\* base 20), at an interior sample where the blends are proper fractions.
C5_Witness ==
    /\ LimitDone
    /\ GregoryRan
    /\ call.handle.vertIndex = 20
    /\ trace.s = 1 /\ trace.t = 1
    /\ Len(trace.greg.fetched) = 20
    /\ \E n \in 1..20 : trace.greg.fetched[n].stencil = 39

\* The call broke the precondition of its entry point.
PreconditionBroken ==
    \/ call.fn = "Interpolate" /\ IsFeatureAdaptive(patchArrays)
    \/ call.fn = "Limit" /\ ~IsFeatureAdaptive(patchArrays)

SupportedByLimit == {REGULAR, SINGLE_CREASE, BOUNDARY, CORNER, GREGORY_BASIS}

\* C7: Limit on a handle whose array is Gregory, Gregory-boundary or any
\* kind other than regular, single-crease, boundary, corner, Gregory-basis
\* fails an assertion and adds no contribution to the destination.
C7_UnsupportedKindAborts ==
    (call.fn = "Limit" /\ CallType \notin SupportedByLimit) =>
       (pc = "aborted" /\ AddsOf(log) = <<>>)

\* C7 witness: Limit passed its precondition and met a legacy Gregory array.
C7_Witness ==
    /\ call.fn = "Limit"
    /\ CallType \in {GREGORY, GREGORY_BOUNDARY}
    /\ pc = "aborted"
    /\ log = <<ClearOp>>

\* C8: Interpolate blends only quads: on a handle whose array has any other
\* kind it fails its precondition and accumulates nothing.
C8_InterpolateOnlyQuads ==
    /\ (call.fn = "Interpolate" /\ CallType # QUADS) =>
          (pc = "aborted" /\ AddsOf(log) = <<>>)
    /\ (call.fn = "Interpolate" /\ pc = "done") =>
          (CallType = QUADS /\ Len(AddsOf(log)) = 4)

\* C8 witness: Interpolate on a regular patch of a store that also holds quads.
C8_Witness ==
    /\ call.fn = "Interpolate"
    /\ patchArrays = <<QUADS, REGULAR>>
    /\ CallType = REGULAR
    /\ pc = "aborted"

\* C9: Limit on a single-crease patch returns normally without a single
\* AddWithWeight and leaves the destination cleared, whatever (s,t), the
\* source buffer and the destination held.
C9_SingleCreaseLeavesCleared ==
    (call.fn = "Limit" /\ CallType = SINGLE_CREASE) =>
       (pc = "done" /\ log = <<ClearOp>> /\ dst = ZeroDst)

\* C9 witness: such a call on curved data, the destination holding data.
C9_Witness ==
    /\ LimitDone
    /\ CallType = SINGLE_CREASE
    /\ src = CurvedBuffer
    /\ dstBefore # ZeroDst
    /\ dst = ZeroDst

\* The call is an Interpolate or Limit that passed its precondition.
PreconditionPassed ==
    \/ call.fn = "Interpolate" /\ ~IsFeatureAdaptive(patchArrays)
    \/ call.fn = "Limit" /\ IsFeatureAdaptive(patchArrays)

\* A destination content other than the one the call started from.
OtherDst == [p |-> dstBefore.d2, d1 |-> dstBefore.p, d2 |-> [c \in Components |-> c]]

\* C10: an Interpolate or Limit that passes its precondition touches the
\* destination only by Clear and AddWithWeight, with Clear exactly once and
\* first, so the result does not depend on what the destination held.
C10_ClearOnceFirst ==
    PreconditionPassed =>
       /\ Len(log) >= 1
       /\ log[1] = ClearOp
       /\ \A n \in 2..Len(log) : log[n].op = "AddWithWeight"
       /\ dst = ApplyOps(log, src, OtherDst)
       /\ dst = ApplyOps(Tail(log), src, ZeroDst)

\* C10 witness: Interpolate blended a quad into a destination that held data.
C10_Witness ==
    /\ call.fn = "Interpolate"
    /\ pc = "done"
    /\ dstBefore # ZeroDst
    /\ Len(log) = 5
    /\ dst # ZeroDst

\* ------------------------------------------------------------------- C11

\* The call of worker w run alone: its outcome on the store as it is.
Alone(w) == WorkerOutcome(workers[w].call)

\* Worker w's call is over.
Ended(w) == workers[w].pc \in {"done", "aborted"}

\* Worker w's call has ended as it ends run alone, made the calls on its
\* destination that it makes alone, and left in it what they leave.
AsAlone(w) ==
    LET r == Alone(w)
    IN /\ workers[w].pc = r.status
       /\ workers[w].n = Len(r.log)
       /\ workers[w].dst = ApplyOps(r.log, src, workers[w].dstBefore)

RECURSIVE TotalWeights(_)
TotalWeights(ops) ==
    IF ops = <<>> THEN [w |-> 0, w1 |-> 0, w2 |-> 0]
    ELSE LET o    == Head(ops)
             rest == TotalWeights(Tail(ops))
         IN [w |-> o.w + rest.w, w1 |-> o.w1 + rest.w1, w2 |-> o.w2 + rest.w2]

BilinearRan == pc = "done" /\ trace.path = "InterpolateBilinear"

\* C12: at every (s, t) of the unit domain, its four corners included,
\* InterpolateBilinear makes four AddWithWeight calls, one per corner vertex in
\* order, with value weights (1-s)(1-t), s(1-t), st, (1-s)t; the value weights
\* sum to 1 (One * One in the model's units) and each derivative set sums to 0.
C12_BilinearPartitionOfUnity ==
    BilinearRan =>
       LET adds == AddsOf(log)
           s    == trace.s
           t    == trace.t
           tot  == TotalWeights(adds)
       IN /\ Len(adds) = 4
          /\ \A k \in 1..4 : adds[k].v = trace.cvs[k - 1]
          /\ <<adds[1].w, adds[2].w, adds[3].w, adds[4].w>>
                = <<(One - s) * (One - t), s * (One - t), s * t, (One - s) * t>>
          /\ tot.w = One * One
          /\ tot.w1 = 0
          /\ tot.w2 = 0

\* C12 witness: Interpolate at the corner (1, 1) of a quad: the whole value
\* weight goes to the third vertex, and the derivative weights are not all 0.
C12_Witness ==
    /\ BilinearRan
    /\ call.fn = "Interpolate"
    /\ trace.s = One /\ trace.t = One
    /\ src = UnitBuffer
    /\ dst.p[trace.cvs[2] + 1] = One * One
    /\ \E k \in 1..4 : AddsOf(log)[k].w1 # 0
    /\ TotalWeights(AddsOf(log)) = [w |-> One * One, w1 |-> 0, w2 |-> 0]

\* ------------------------------------------------------------------- C13

\* Limit has been evaluated on the original and on the copy.
EvaluatedOnBoth == call.fn = "Limit" /\ pc # "idle" /\ copy.status # "idle"

FetchesOfStencil(k) == SelectSeq(trace.greg.fetched, LAMBDA f : f.stencil = k)

\* The inner slots in the order the loop meets them.
InnerSlotOrder == <<5, 6, 9, 10>>

\* C14: one InterpolateGregoryPatch call fetches each of the 20 stencils
\* stencilIndex+0 .. stencilIndex+19 exactly once, 12 by single slots and 8 by
\* the blended inner slots; the i-th inner slot in slot order 5, 6, 9, 10 uses
\* the i-th blend pair and the i-th split-ratio pair; the blend counter stays
\* below 4, so the assertion on it never fails and the call returns.
C14_EachStencilOnce ==
    GregoryRan =>
       LET fetched == trace.greg.fetched
           base    == call.handle.vertIndex
       IN /\ trace.greg.ok
          /\ pc = "done"
          /\ Len(fetched) = 20
          /\ \A k \in 0..19 : Len(FetchesOfStencil(base + k)) = 1
          /\ Cardinality({n \in 1..Len(fetched) : fetched[n].pair = -1}) = 12
          /\ Cardinality({n \in 1..Len(fetched) : fetched[n].pair # -1}) = 8
          /\ \A n \in 1..Len(fetched) : fetched[n].pair <= 3
          /\ \A i \in 0..3 :
                LET fs == FetchesOf(InnerSlotOrder[i + 1])
                IN /\ Len(fs) = 2
                   /\ fs[1].pair = i /\ fs[2].pair = i
                   /\ fs[1].stencil = base + fpermute[i][1]
                   /\ fs[2].stencil = base + fpermute[i][2]
                   /\ fs[1].w = trace.greg.weights[i][1]
                   /\ fs[2].w = trace.greg.weights[i][2]

\* C14 witness: InterpolateGregoryPatch called directly on the stencils of the
\* second patch: the last inner slot, 10, took the fourth blend pair, and the
\* stencils 20 .. 39 were fetched.
C14_Witness ==
    /\ GregoryRan
    /\ call.fn = "InterpolateGregoryPatch"
    /\ pc = "done"
    /\ call.handle.vertIndex = 20
    /\ {trace.greg.fetched[n].stencil : n \in 1..Len(trace.greg.fetched)} = 20..39
    /\ FetchesOf(10)[1].pair = 3
    /\ FetchesOf(10)[1].stencil = 20 + 13
    /\ FetchesOf(10)[2].stencil = 20 + 14

\* ------------------------------------------------------------------- C15

\* The sum of the 16 basis weights W[0..15].
RECURSIVE SumFrom(_, _)
SumFrom(W, k) == IF k > 15 THEN 0 ELSE W[k] + SumFrom(W, k + 1)

\* The totals of the basis weights the call was given.
InputTotals ==
    [w |-> SumFrom(trace.W.Q, 0), w1 |-> SumFrom(trace.W.Qd1, 0),
     w2 |-> SumFrom(trace.W.Qd2, 0)]

\* A source buffer holding one value at every vertex.
ConstantValue == [c \in Components |-> c + 2]

ConstantBuffer == [v \in 0..NumVerts - 1 |-> ConstantValue]

\* 1.0 in the units of the tensor B-spline value weights: the sixteen
\* weights of getBasisWeightsAtUV add up to (6.GridN^3)^2.
BSplineUnit == (6 * One * One * One) * (6 * One * One * One)

\* C15: the value weights InterpolateBoundaryPatch (20 calls) and
\* InterpolateCornerPatch (25 calls) pass to AddWithWeight add up to the total
\* of the 16 weights Q[0..15] they were given, and so does each derivative
\* set; hence under Limit, whose B-spline weights add up to 1, the weights
\* over the stored vertices add up to 1 and the calls, replayed on a constant
\* source buffer, leave that constant in a cleared destination.
C15_MirroringPreservesTotalWeight ==
    (BoundaryDone \/ CornerDone) =>
       LET adds == AddsOf(log)
       IN /\ Len(adds) = (IF BoundaryDone THEN 20 ELSE 25)
          /\ TotalWeights(adds) = InputTotals
          /\ call.fn = "Limit" =>
                /\ TotalWeights(adds).w = BSplineUnit
                /\ ApplyOps(log, ConstantBuffer, dstBefore).p
                      = [c \in Components |-> BSplineUnit * ConstantValue[c]]

\* C15 witness: Limit on a corner patch at an interior sample: 25 calls, some
\* with negative weight, the value weights adding up to 1.
C15_Witness ==
    /\ LimitDone
    /\ CornerDone
    /\ trace.s = 1 /\ trace.t = 1
    /\ Len(AddsOf(log)) = 25
    /\ \E n \in 1..25 : AddsOf(log)[n].w < 0
    /\ TotalWeights(AddsOf(log)).w = BSplineUnit
    /\ InputTotals.w = BSplineUnit

====
